---- MODULE Spec2Model ----
(***************************************************************************)
(* Model of src/ng/exceptionHandler.js: the angular.module loader built by *)
(* setupModuleLoader() and the default $exceptionHandler service.          *)
(*                                                                         *)
(* Module descriptors are heap objects: heap[d] is the descriptor with     *)
(* identity d, so that a client may keep using a descriptor after its name *)
(* has been registered again.  The registry `modules` is a plain JavaScript*)
(* object literal: property reads see Object.prototype, hasOwnProperty     *)
(* does not.                                                               *)
(***************************************************************************)
EXTENDS Integers, Sequences, FiniteSets, TLC

\* ---------------------------------------------------------------- bounds
MaxModules == 2     \* descriptors ever built
MaxEntries == 2     \* registration and run calls made, over all descriptors
MaxErrors  == 4     \* calls of the exception handler

\* ---------------------------------------------------------------- inputs
Names      == {"a", "b", "toString"}
ProtoNames == {"toString"}
Fns        == {"f", "g"}
NameArgs   == {<<"n", "g">>}
ConfigArgs == {<<f>> : f \in Fns}
ErrorArgs  == {<<>>, <<"ex">>, <<"ex", "cause">>, <<"cause", "ex">>}

Undefined  == "undefined"
NoRequires == [given |-> FALSE, list |-> <<>>]
RequiresOpts ==
  {NoRequires, [given |-> TRUE, list |-> <<>>], [given |-> TRUE, list |-> <<"b">>]}
ConfigOpts == {Undefined, "f"}

\* ---------------------------------------------------------------- values
Absent        == [type |-> "absent",     id |-> 0, text |-> ""]
Null          == [type |-> "null",       id |-> 0, text |-> ""]
UndefinedVal  == [type |-> "undefined",  id |-> 0, text |-> ""]
Inherited(n)  == [type |-> "inherited",  id |-> 0, text |-> n]
Descriptor(d) == [type |-> "descriptor", id |-> d, text |-> ""]
NoModuleError(n) == [type |-> "error",   id |-> 0, text |-> "No module: " \o n]

Truthy(v)    == v.type \in {"inherited", "descriptor"}
Specified(r) == r.given

VARIABLES modules, heap, errorCalls, last
vars == <<modules, heap, errorCalls, last>>

NoCall ==
  [op |-> "none", name |-> "", requires |-> NoRequires, configFn |-> Undefined,
   target |-> 0, args |-> <<>>, result |-> UndefinedVal]

Init ==
  /\ modules = [n \in Names |-> Absent]
  /\ heap = <<>>
  /\ errorCalls = <<>>
  /\ last = NoCall

\* ------------------------------------------------------ property access
hasOwnProperty(obj, name) == obj[name].type # "absent"

Get(obj, name) ==
  IF hasOwnProperty(obj, name) THEN obj[name]
  ELSE IF name \in ProtoNames THEN Inherited(name)
  ELSE UndefinedVal

\* ------------------------------------------------------ module instance
invokeLaterTwice(h, d, provider, method, args) ==
  [h EXCEPT ![d].invokeQueue = @ \o <<<<provider, method, args>>, <<provider, method, args>>>>]

invokeLaterShared(h, d, provider, method, args) ==
  [e \in DOMAIN h |-> [h[e] EXCEPT !.invokeQueue = Append(@, <<provider, method, args>>)]]

invokeLaterRun(h, d, provider, method, args) ==
  [h EXCEPT ![d].invokeQueue = Append(@, <<provider, method, args>>),
            ![d].runBlocks = Append(@, args[Len(args)])]

invokeLater(h, d, provider, method, args) ==
  [h EXCEPT ![d].invokeQueue = Append(@, <<provider, method, args>>)]

runBlocksUnshift(blocks, fn) == <<fn>> \o blocks

runBlocksPush(blocks, fn) == Append(blocks, fn)

applyConfigFnNever(h, d, configFn) == h

applyConfigFn(h, d, configFn) ==
  IF configFn # Undefined
  THEN invokeLater(h, d, "$injector", "invoke", <<configFn>>)
  ELSE h

moduleInstance(name, requires) ==
  [name |-> name, requires |-> requires.list, invokeQueue |-> <<>>, runBlocks |-> <<>>]

factory(h, name, requires, configFn) ==
  IF ~Specified(requires)
  THEN [thrown |-> TRUE, value |-> NoModuleError(name), heap |-> h]
  ELSE LET d == Len(h) + 1
       IN [thrown |-> FALSE, value |-> Descriptor(d),
           heap |-> applyConfigFn(Append(h, moduleInstance(name, requires)), d, configFn)]

\* ------------------------------------------------------------ registry
ensureNullOnThrow(obj, h, name, made) ==
  IF Truthy(Get(obj, name))
  THEN [obj |-> obj, heap |-> h, value |-> Get(obj, name)]
  ELSE IF made.thrown
       THEN [obj |-> [obj EXCEPT ![name] = Null], heap |-> h, value |-> made.value]
       ELSE [obj |-> [obj EXCEPT ![name] = made.value], heap |-> made.heap,
             value |-> made.value]

ensure(obj, h, name, made) ==
  IF Truthy(Get(obj, name))
  THEN [obj |-> obj, heap |-> h, value |-> Get(obj, name)]
  ELSE IF made.thrown
       THEN [obj |-> obj, heap |-> h, value |-> made.value]
       ELSE [obj |-> [obj EXCEPT ![name] = made.value], heap |-> made.heap,
             value |-> made.value]

discardNever(obj, name, requires) == obj

discard(obj, name, requires) ==
  IF Specified(requires) /\ hasOwnProperty(obj, name)
  THEN [obj EXCEPT ![name] = Null]
  ELSE obj

moduleCall(obj, h, name, requires, configFn) ==
  ensure(discard(obj, name, requires), h, name, factory(h, name, requires, configFn))

TotalEntries(h) ==
  LET RECURSIVE Sum(_)
      Sum(i) == IF i = 0 THEN 0
                ELSE Len(h[i].invokeQueue) + Len(h[i].runBlocks) + Sum(i - 1)
  IN Sum(Len(h))

\* ------------------------------------------------------------- actions
module(name, requires, configFn) ==
  LET r == moduleCall(modules, heap, name, requires, configFn)
  IN /\ Len(r.heap) <= MaxModules
     /\ modules' = r.obj
     /\ heap' = r.heap
     /\ last' = [NoCall EXCEPT !.op = "module", !.name = name, !.requires = requires,
                               !.configFn = configFn, !.result = r.value]
     /\ UNCHANGED errorCalls

register(op, d, provider, method, args) ==
  /\ d \in DOMAIN heap
  /\ TotalEntries(heap) < MaxEntries
  /\ heap' = invokeLater(heap, d, provider, method, args)
  /\ last' = [NoCall EXCEPT !.op = op, !.target = d, !.args = args,
                            !.result = Descriptor(d)]
  /\ UNCHANGED <<modules, errorCalls>>

provider(d, args)   == register("provider",   d, "$provide", "provider", args)
factoryFn(d, args)  == register("factory",    d, "$provide", "factory", args)
service(d, args)    == register("service",    d, "$provide", "service", args)
value(d, args)      == register("value",      d, "$provide", "value", args)
constant(d, args)   == register("constant",   d, "$provide", "constant", args)
filter(d, args)     == register("filter",     d, "$filterProvider", "register", args)
controller(d, args) == register("controller", d, "$controllerProvider", "register", args)
directive(d, args)  == register("directive",  d, "$compileProvider", "directive", args)
config(d, args)     == register("config",     d, "$injector", "invoke", args)

run(d, fn) ==
  /\ d \in DOMAIN heap
  /\ TotalEntries(heap) < MaxEntries
  /\ heap' = [heap EXCEPT ![d].runBlocks = runBlocksPush(@, fn)]
  /\ last' = [NoCall EXCEPT !.op = "run", !.target = d, !.args = <<fn>>,
                            !.result = Descriptor(d)]
  /\ UNCHANGED <<modules, errorCalls>>

forwardFirstOnly(arguments) ==
  IF Len(arguments) = 0 THEN <<>> ELSE <<arguments[1]>>

forward(arguments) == arguments

exceptionHandler(arguments) ==
  /\ Len(errorCalls) < MaxErrors
  /\ errorCalls' = Append(errorCalls, forward(arguments))
  /\ last' = [NoCall EXCEPT !.op = "exceptionHandler", !.args = arguments]
  /\ UNCHANGED <<modules, heap>>

Ids == 1..MaxModules

\* Registry behaviour: every name, every form of the requires and configFn
\* arguments, and enough registrations to tell descriptors apart.
Next ==
  \/ \E n \in Names, r \in RequiresOpts, c \in ConfigOpts : module(n, r, c)
  \/ \E d \in Ids, a \in NameArgs : value(d, a)
  \/ \E d \in Ids, a \in NameArgs : constant(d, a)
  \/ \E d \in Ids : run(d, "f")

Spec == Init /\ [][Next]_vars

\* Queue behaviour: every registration method, on
\* current and stale descriptors of the own names.
OwnNames    == Names \ ProtoNames
QueueReqs   == {NoRequires, [given |-> TRUE, list |-> <<>>]}

NextQueue ==
  \/ \E n \in OwnNames, r \in QueueReqs : module(n, r, Undefined)
  \/ \E d \in Ids, a \in NameArgs : provider(d, a)
  \/ \E d \in Ids, a \in NameArgs : factoryFn(d, a)
  \/ \E d \in Ids, a \in NameArgs : service(d, a)
  \/ \E d \in Ids, a \in NameArgs : value(d, a)
  \/ \E d \in Ids, a \in NameArgs : constant(d, a)
  \/ \E d \in Ids, a \in NameArgs : filter(d, a)
  \/ \E d \in Ids, a \in NameArgs : controller(d, a)
  \/ \E d \in Ids, a \in NameArgs : directive(d, a)
  \/ \E d \in Ids, a \in ConfigArgs : config(d, a)
  \/ \E d \in Ids, f \in Fns : run(d, f)

SpecQueue == Init /\ [][NextQueue]_vars

NextLog == \E a \in ErrorArgs : exceptionHandler(a)

SpecLog == Init /\ [][NextLog]_vars

\* ============================================================ properties
IsPrefix(s, t) == Len(s) <= Len(t) /\ SubSeq(t, 1, Len(s)) = s

DeferredOps ==
  {"provider", "factory", "service", "value", "filter", "controller", "directive", "config"}
RegistrationOps == DeferredOps \cup {"constant"}

\* The latest descriptor built under a name (identities are handed out in order).
Latest(n) ==
  LET ds == {d \in DOMAIN heap : heap[d].name = n}
  IN CHOOSE d \in ds : \A e \in ds : e <= d

\* C1: module(name) without a dependency list, for a name that is not
\* registered, raises 'No module: <name>' -- for every name.
C1_MissingModuleRaises ==
  (last.op = "module" /\ ~last.requires.given /\ ~hasOwnProperty(modules, last.name))
    => last.result = NoModuleError(last.name)

\* C2: module(name, requires) with a non-empty list for a registered name
\* returns a newly built descriptor carrying nothing of the previous one,
\* leaves the previous descriptor as it was, and makes the registry answer
\* every later retrieval with the latest descriptor of the name.
C2_Reregistration ==
  /\ [][\A n \in Names :
          (/\ last'.op = "module" /\ last'.name = n
           /\ last'.requires.given /\ last'.requires.list # <<>>
           /\ modules[n].type = "descriptor")
          => /\ last'.result.type = "descriptor"
             /\ last'.result.id \notin DOMAIN heap
             /\ last'.result.id \in DOMAIN heap'
             /\ heap'[last'.result.id].runBlocks = <<>>
             /\ \A i \in DOMAIN heap'[last'.result.id].invokeQueue :
                  heap'[last'.result.id].invokeQueue[i]
                    = <<"$injector", "invoke", <<last'.configFn>>>>
             /\ Len(heap'[last'.result.id].invokeQueue) <= 1
             /\ modules'[n] = last'.result
             /\ heap'[modules[n].id] = heap[modules[n].id]]_vars
  /\ [](\A n \in Names :
          /\ modules[n].type = "descriptor" => modules[n].id = Latest(n)
          /\ (last.op = "module" /\ last.name = n /\ ~last.requires.given
                /\ last.result.type = "descriptor")
             => last.result.id = Latest(n))

C2_Witness ==
  /\ last.op = "module" /\ last.requires.list # <<>>
  /\ last.result.type = "descriptor"
  /\ heap[last.result.id].invokeQueue = <<>>
  /\ \E d \in DOMAIN heap :
       /\ d < last.result.id /\ heap[d].name = last.name
       /\ heap[d].invokeQueue # <<>> /\ heap[d].runBlocks # <<>>

C3Pair(op) ==
  CASE op = "provider"   -> <<"$provide", "provider">>
    [] op = "factory"    -> <<"$provide", "factory">>
    [] op = "service"    -> <<"$provide", "service">>
    [] op = "value"      -> <<"$provide", "value">>
    [] op = "filter"     -> <<"$filterProvider", "register">>
    [] op = "controller" -> <<"$controllerProvider", "register">>
    [] op = "directive"  -> <<"$compileProvider", "directive">>
    [] op = "config"     -> <<"$injector", "invoke">>

\* C3: a deferred registration call appends exactly the tuple
\* [provider, method, arguments] of its method to the invoke queue of its
\* module and does nothing else; queues only ever grow at their end.
C3_DeferredAppend ==
  [][/\ \A op \in DeferredOps :
          last'.op = op
          => /\ heap'[last'.target].invokeQueue
                  = Append(heap[last'.target].invokeQueue,
                           <<C3Pair(op)[1], C3Pair(op)[2], last'.args>>)
             /\ modules' = modules
             /\ errorCalls' = errorCalls
     /\ \A d \in DOMAIN heap :
          IsPrefix(heap[d].invokeQueue, heap'[d].invokeQueue)]_vars

C3_Witness ==
  /\ last.op \in DeferredOps
  /\ Len(heap[last.target].invokeQueue) = 2
  /\ heap[last.target].invokeQueue[1] # heap[last.target].invokeQueue[2]
  /\ heap[last.target].invokeQueue[2][3] = last.args

\* C4: in every invoke queue all tuples recorded by constant() come before
\* all tuples recorded by the other registration methods.
C4_ConstantsFirst ==
  \A d \in DOMAIN heap :
    \A i, j \in DOMAIN heap[d].invokeQueue :
      (i < j) => ~(heap[d].invokeQueue[i][2] # "constant"
                   /\ heap[d].invokeQueue[j][2] = "constant")

\* C5: module(name, requires) with a specified list registers a descriptor
\* with that name and list, and retrievals return the registered descriptor.
C5_BuiltOnceAndCached ==
  /\ (last.op = "module" /\ last.requires.given)
     => /\ last.result.type = "descriptor"
        /\ modules[last.name] = last.result
        /\ heap[last.result.id].name = last.name
        /\ heap[last.result.id].requires = last.requires.list
  /\ (last.op = "module" /\ ~last.requires.given /\ last.result.type # "error")
     => /\ last.result.type = "descriptor"
        /\ modules[last.name] = last.result
        /\ heap[last.result.id].name = last.name

\* C6: a module built with a configFn starts with exactly the tuple that
\* config(configFn) records and an empty run list; built without one it
\* starts with an empty invoke queue.
C6_ConfigFnIsConfig ==
  [][(/\ last'.op = "module"
      /\ last'.result.type = "descriptor"
      /\ last'.result.id \notin DOMAIN heap)
     => /\ heap'[last'.result.id].runBlocks = <<>>
        /\ heap'[last'.result.id].invokeQueue
             = IF last'.configFn # Undefined
               THEN << <<C3Pair("config")[1], C3Pair("config")[2], <<last'.configFn>>>> >>
               ELSE <<>>]_vars

C6_Witness ==
  /\ last.op = "module" /\ last.configFn = "f"
  /\ last.result.type = "descriptor"
  /\ last.result.id = Len(heap)
  /\ heap[last.result.id].invokeQueue = << <<"$injector", "invoke", <<"f">>>> >>

\* C7: every call of the exception handler makes exactly one $log.error
\* call with the same arguments in the same order and touches nothing else.
C7_ForwardsToLog ==
  [][last'.op = "exceptionHandler"
     => /\ errorCalls' = Append(errorCalls, last'.args)
        /\ modules' = modules
        /\ heap' = heap]_vars

C7_Witness ==
  /\ last.op = "exceptionHandler"
  /\ Len(errorCalls) = 3
  /\ errorCalls[1] = <<>>
  /\ errorCalls[2] = <<"cause", "ex">>
  /\ errorCalls[3] = <<"ex", "cause">>

\* C8: run(fn) appends fn to the end of the run list of its module and
\* leaves the invoke queue, name and requires alone; no registration method
\* changes any run list.
C8_RunFrame ==
  [][/\ last'.op = "run"
        => /\ heap'[last'.target].runBlocks
                = Append(heap[last'.target].runBlocks, last'.args[1])
           /\ heap'[last'.target].invokeQueue = heap[last'.target].invokeQueue
           /\ heap'[last'.target].name = heap[last'.target].name
           /\ heap'[last'.target].requires = heap[last'.target].requires
     /\ last'.op \in RegistrationOps
        => \A d \in DOMAIN heap : heap'[d].runBlocks = heap[d].runBlocks]_vars

C8_Witness ==
  /\ last.op = "run"
  /\ heap[last.target].runBlocks = <<"f", "g">>

\* C9: a retrieval that raises leaves the registry and every descriptor as
\* they were, so the same retrieval raises again; and creating a module under
\* a name whose retrieval raises builds a fresh descriptor with empty queues.
C9_FailedRetrievalFrame ==
  [][/\ (last'.op = "module" /\ last'.result.type = "error")
        => /\ modules' = modules
           /\ heap' = heap
           /\ moduleCall(modules', heap', last'.name, NoRequires, Undefined).value
                = last'.result
     /\ \A n \in Names :
          (/\ last'.op = "module" /\ last'.name = n
           /\ last'.requires.given /\ last'.configFn = Undefined
           /\ moduleCall(modules, heap, n, NoRequires, Undefined).value.type = "error")
          => /\ last'.result.type = "descriptor"
             /\ last'.result.id \notin DOMAIN heap
             /\ modules'[n] = last'.result
             /\ heap'[last'.result.id].invokeQueue = <<>>
             /\ heap'[last'.result.id].runBlocks = <<>>]_vars

C9_Witness ==
  /\ last.op = "module" /\ last.result.type = "error"
  /\ ~hasOwnProperty(modules, last.name)
  /\ \E d \in DOMAIN heap : heap[d].invokeQueue # <<>>

\* C10: a registration or run call made through a descriptor changes that
\* descriptor only: no other descriptor, current or stale, and no registry
\* entry changes.
C10_PrivateQueues ==
  [][last'.op \in RegistrationOps \cup {"run"}
     => /\ modules' = modules
        /\ \A d \in DOMAIN heap : d # last'.target => heap'[d] = heap[d]]_vars

C10_Witness ==
  /\ last.op \in RegistrationOps
  /\ modules[heap[last.target].name].type = "descriptor"
  /\ modules[heap[last.target].name].id # last.target
  /\ heap[last.target].invokeQueue # <<>>
  /\ heap[modules[heap[last.target].name].id].invokeQueue = <<>>

====
